---- MODULE Spec2Model ----
(***************************************************************************)
(* pylander: the game loop (game.py), the ECS systems it runs in each      *)
(* physics tick and frame (core/systems), and the physics engine's         *)
(* per-actor registries (core/physics.py).                                 *)
(*                                                                         *)
(* Units.  Lengths are whole world units, velocities world units per       *)
(* second.  Every System.update takes dt; the loop passes dt = 1/Fps.      *)
(* Angles are in 1e-4 rad.  thrust_level and target_thrust are in units of *)
(* 1/Fps (Fps = full thrust 1.0), fuel is in units of 1/Fps^2, so that     *)
(* rate * dt and burn_rate * thrust_level * dt are whole numbers.          *)
(***************************************************************************)
EXTENDS Integers, Sequences, FiniteSets, TLC

\* ---------------------------------------------------------------- bounds
\* Physics ticks per second of the bounded instance (dt = 1/Fps).
Fps == 4
\* FuelTank.max_fuel of the bounded instance, in fuel units (1/Fps^2).
MaxFuel == 4
\* ScriptFrame.duration of the ferry's two script frames, in physics ticks.
ScriptTicks == 2
\* A target_angle a controller can ask for, beyond safe_landing_angle (1e-4 rad).
TiltAngle == 3000
\* PhysicsState.mass, the mass a lander body is attached with.
LanderMass == 1
\* Direct calls made on one engine.
MaxCalls == 3

\* ------------------------------------------------------ program constants
LanderWidth == 8
LanderHeight == 8
SafeLandingVelocity == 10
SafeLandingAngle == 2618
MaxPower == 50
IncreaseRate == 2
DecreaseRate == 4
MaxRotationRate == 15708
EaseBand == 2618
Pi == 31416
HalfWidthCfg == 12000
PadAward == 100
TakeoffBump == 1
SegmentStep == 10

HalfW == LanderWidth \div 2
HalfH == LanderHeight \div 2

\* ---------------------------------------------------------------- helpers
Abs(n) == IF n < 0 THEN -n ELSE n
Max(a, b) == IF a >= b THEN a ELSE b
Min(a, b) == IF a <= b THEN a ELSE b
Zero2 == <<0, 0>>
VSub(a, b) == <<a[1] - b[1], a[2] - b[2]>>
\* Vector2.length() compared through its square: length() < k  <=>  LenSq < k*k.
LenSq(v) == v[1] * v[1] + v[2] * v[2]
None == "none"
\* Python dicts are functions on their key set.
EmptyDict == [k \in {} |-> None]
Put(d, k, v) == [x \in DOMAIN d \cup {k} |-> IF x = k THEN v ELSE d[x]]
Drop(d, ks) == [x \in DOMAIN d \ ks |-> d[x]]

\* --------------------------------------------------------------- entities
Actors == {"player", "bot"}
Sites == {"pad", "ferry"}
SiteOrder == <<"pad", "ferry">>
SiteIndex(s) == CHOOSE i \in 1..Len(SiteOrder) : SiteOrder[i] = s
SiteSize == [s \in Sites |-> 20]
\* Lander.start_pos: clear of both sites.
StartPos == <<50, 30>>
PadPos == <<0, 0>>
FerryPos == <<100, 0>>
FerrySpeed == 3 * Fps
\* The ferry is a site entity that carries its own KinematicMotion and a
\* ScriptController with two looping frames, +x then -x; the pad is static.
ScriptFrames == << <<FerrySpeed, 0>>, <<0 - FerrySpeed, 0>> >>

VARIABLES
    actors,           \* lander entities of the ECS world, in World.entities order
    ls_state,         \* LanderState.state
    trans_pos,        \* Transform.pos
    trans_rot,        \* Transform.rotation
    phys_vel,         \* PhysicsState.vel
    thrust_level,     \* Engine.thrust_level
    target_thrust,    \* Engine.target_thrust
    target_angle,     \* Engine.target_angle
    fuel,             \* FuelTank.fuel
    credits,          \* Wallet.credits
    site_pos,         \* site entity Transform.pos
    site_vel,         \* site entity KinematicMotion.velocity
    script,           \* ferry ScriptController: frame_index, frame_elapsed (ticks)
    econ,             \* site entity LandingSiteEconomy: award, visited
    views,            \* LandingSiteSurfaceModel._sites
    bodies,           \* PhysicsEngine._bodies: uid -> pos, vel, angle 
    controls,         \* PhysicsEngine._controls: uid -> thrust, angle 
    overrides,        \* PhysicsEngine._overrides: uid -> angle 
    pending_forces,   \* PhysicsEngine._pending_forces: uid -> force 
    contacts,         \* PhysicsEngine._contacts: uid -> report["colliding"] 
    primary_uid,      \* PhysicsEngine._primary_uid / EngineAdapter._primary_actor_uid
    window_center_x,  \* PhysicsEngine._window_center_x: << >> (None) or <<x>>
    masses,           \* body.mass of every registered body
    shapes,           \* PhysicsEngine._shapes: uid -> ids of its shapes
    shape_to_uid,     \* PhysicsEngine._shape_to_uid: id(shape) -> uid
    space,            \* ids of the actor shapes held by the pymunk space
    arbiters,         \* the space's arbiters of (actor shape, terrain segment)
                      \* pairs and where space.step is in delivering callbacks
    ret,              \* the last direct call on the engine and what it returned
    ncalls,           \* how many direct calls were made
    store,            \* sensor._PROX_CACHE.store, least recently used first
    query,            \* the last sensor or terrain query and its answer
    pc,               \* position of the game loop
    ci,               \* ContactSystem.update: index of the entity being resolved
    user_ok,          \* _process_input produced user controls this frame
    resolved          \* the last ContactSystem._resolve call: its inputs and locals

vars == <<actors, ls_state, trans_pos, trans_rot, phys_vel, thrust_level,
          target_thrust, target_angle, fuel, credits, site_pos, site_vel,
          script, econ, views, bodies, controls, overrides, pending_forces,
          contacts, primary_uid, window_center_x, masses, shapes,
          shape_to_uid, space, arbiters, ret, ncalls, store,
          query, pc, ci,
          user_ok, resolved>>

ecsActorVars == <<ls_state, trans_pos, trans_rot, phys_vel, thrust_level,
                  target_thrust, target_angle, fuel, credits>>
siteVars == <<site_pos, site_vel, script, econ, views>>

\* State the game loop itself never touches.
queryVars == <<store, query>>
shapeVars == <<shapes, shape_to_uid, space, arbiters>>
extVars == <<masses, shapeVars, ret, ncalls, queryVars>>

ActorSet == {actors[i] : i \in 1..Len(actors)}

\* resolved before any _resolve call of the current tick.
NoResolve == [uid |-> None]

\* The terrain segments an actor shape can touch.
Segments == {"left", "right"}

\* A space that has not stepped: it holds no arbiter.
NoArbiters == [phase |-> "collide", state |-> EmptyDict]

\* query before any sensor or terrain query.
NoQuery == [op |-> None]

\* ret before any direct call on the engine.
NoCall == [op |-> None, uid |-> None, val |-> None, err |-> FALSE]

\* ------------------------------------------------------------ projection
\* LandingSiteProjectionSystem.update: one view per site entity.
ProjectViews(pos, vel, ec) ==
    [s \in Sites |-> [x |-> pos[s][1], y |-> pos[s][2], vel |-> vel[s],
                      size |-> SiteSize[s], award |-> ec[s].award,
                      visited |-> ec[s].visited]]

\* ------------------------------------------------------------------ Init
\* The level's sites where the level places them.
LevelPlaces == [s \in Sites |-> IF s = "pad" THEN PadPos ELSE FerryPos]

\* The components a lander entity is created with by the level.
LevelComp == [state |-> "flying", pos |-> StartPos, thrust_level |-> 0,
              target_thrust |-> 0, fuel |-> MaxFuel, credits |-> 0,
              mass |-> LanderMass]

\* The state after setup, for the landers of order, each built with the
\* components comp, and the sites at places.
InitComp(order, places, comp) ==
    /\ actors = order
    /\ ls_state = [a \in Actors |-> comp.state]
    /\ trans_pos = [a \in Actors |-> comp.pos]
    /\ trans_rot = [a \in Actors |-> 0]
    /\ phys_vel = [a \in Actors |-> Zero2]
    /\ thrust_level = [a \in Actors |-> comp.thrust_level]
    /\ target_thrust = [a \in Actors |-> comp.target_thrust]
    /\ target_angle = [a \in Actors |-> 0]
    /\ fuel = [a \in Actors |-> comp.fuel]
    /\ credits = [a \in Actors |-> comp.credits]
    /\ site_pos = places
    /\ site_vel = [s \in Sites |-> IF s = "pad" THEN Zero2 ELSE ScriptFrames[1]]
    /\ script = [idx |-> 0, elapsed |-> 0]
    /\ econ = [s \in Sites |-> [award |-> IF s = "pad" THEN PadAward ELSE 0,
                                visited |-> FALSE]]
    /\ views = ProjectViews(site_pos, site_vel, econ)
    /\ bodies = [a \in {order[i] : i \in 1..Len(order)} |->
                    [pos |-> comp.pos, vel |-> Zero2, angle |-> 0]]
    /\ controls = [a \in {order[i] : i \in 1..Len(order)} |->
                    [thrust |-> 0, angle |-> 0]]
    /\ overrides = EmptyDict
    /\ pending_forces = EmptyDict
    /\ contacts = [a \in {order[i] : i \in 1..Len(order)} |-> FALSE]
    /\ primary_uid = order[1]
    /\ window_center_x = <<comp.pos[1]>>
    /\ masses = [a \in {order[i] : i \in 1..Len(order)} |-> comp.mass]
    /\ shapes = [a \in {order[i] : i \in 1..Len(order)} |->
                   {CHOOSE i \in 1..Len(order) : order[i] = a}]
    /\ shape_to_uid = [i \in 1..Len(order) |-> order[i]]
    /\ space = 1..Len(order)
    /\ arbiters = NoArbiters
    /\ ret = NoCall
    /\ ncalls = 0
    /\ store = << >>
    /\ query = NoQuery
    /\ pc = "frame"
    /\ ci = 0
    /\ user_ok = FALSE
    /\ resolved = NoResolve

\* The state after level setup, for the landers of order and the sites at
\* places.
InitAt(order, places) == InitComp(order, places, LevelComp)

InitWith(order) == InitAt(order, LevelPlaces)

Init == InitWith(<<"player">>)

\* ------------------------------------------------------- engine adapter
\* PhysicsEngine._resolve_uid(None): the primary actor if it has a body, else
\* the first registered body (registration order is World order).
AnchorUid ==
    IF primary_uid \in DOMAIN bodies THEN primary_uid
    ELSE IF \E i \in 1..Len(actors) : actors[i] \in DOMAIN bodies
         THEN actors[CHOOSE i \in 1..Len(actors) :
                        /\ actors[i] \in DOMAIN bodies
                        /\ \A j \in 1..(i - 1) : actors[j] \notin DOMAIN bodies]
         ELSE None

\* _resolve_uid without the membership test on an explicit uid.
ResolveUidUnchecked(uid) ==
    IF uid # None THEN uid
    ELSE AnchorUid

\* PhysicsEngine._resolve_uid: an explicit uid resolves to itself when it has
\* a body and to None otherwise; no uid resolves to the anchor.  (The adapter
\* always passes its own primary uid when its caller gives none.)
ResolveUid(uid) ==
    IF uid # None THEN (IF uid \in DOMAIN bodies THEN uid ELSE None)
    ELSE AnchorUid

\* PhysicsEngine.teleport_lander(pos, angle, clear_velocity=True, uid).
Teleport(bs, uid, pos, angle) ==
    IF uid \notin DOMAIN bs THEN bs
    ELSE [bs EXCEPT ![uid] = [pos |-> pos, vel |-> Zero2, angle |-> angle]]

\* PhysicsEngine._ensure_window_centered: the window center after the call.
EnsureWindowCentered(center, cx) ==
    IF center = << >> THEN <<cx>>
    ELSE IF 4 * Abs(cx - center[1]) >= HalfWidthCfg THEN <<cx>> ELSE center

\* ----------------------------------------------------------- frame start
\* game.py _reset_lander_entity + _do_reset, for the active actor.
ProcessInput ==
    /\ pc = "frame"
    /\ UNCHANGED extVars
    /\ \E reset \in BOOLEAN :
        LET a == primary_uid IN
        IF reset
        THEN /\ trans_pos' = [trans_pos EXCEPT ![a] = StartPos]
             /\ trans_rot' = [trans_rot EXCEPT ![a] = 0]
             /\ phys_vel' = [phys_vel EXCEPT ![a] = Zero2]
             /\ fuel' = [fuel EXCEPT ![a] = MaxFuel]
             /\ thrust_level' = [thrust_level EXCEPT ![a] = 0]
             /\ target_thrust' = [target_thrust EXCEPT ![a] = 0]
             /\ target_angle' = [target_angle EXCEPT ![a] = 0]
             /\ ls_state' = [ls_state EXCEPT ![a] = "flying"]
             /\ bodies' = Teleport(bodies, ResolveUid(a), StartPos, 0)
        ELSE UNCHANGED <<trans_pos, trans_rot, phys_vel, fuel, thrust_level,
                         target_thrust, target_angle, ls_state, bodies>>
    /\ user_ok' = (ls_state'[primary_uid] \in {"flying", "landed"})
    /\ pc' = "physics"
    /\ resolved' = NoResolve
    /\ UNCHANGED <<actors, credits, siteVars, controls, overrides,
                   pending_forces, contacts, primary_uid, window_center_x, ci>>

\* ------------------------------------------------------ pre-step systems
\* ScriptedControlSystem._advance for the ferry carrier: the script position
\* after dt (one tick), and the velocity _apply_frame leaves in
\* KinematicMotion.  frame_elapsed < duration before the call, so the while
\* loop runs at most once.
ScriptAdvance(sc) ==
    LET e == sc.elapsed + 1 IN
    IF e >= ScriptTicks
    THEN [idx |-> IF sc.idx + 1 >= Len(ScriptFrames) THEN 0 ELSE sc.idx + 1,
          elapsed |-> e - ScriptTicks]
    ELSE [idx |-> sc.idx, elapsed |-> e]

ScriptVelocity(sc) == ScriptFrames[Min(sc.idx, Len(ScriptFrames) - 1) + 1]

\* LandingSiteMotionSystem.update: trans.pos += motion.velocity * dt.
SiteMotion(pos, vel) ==
    [s \in Sites |-> <<pos[s][1] + vel[s][1] \div Fps,
                       pos[s][2] + vel[s][2] \div Fps>>]

\* PropulsionSystem._update_entity, thrust slew (dt = 1/Fps, so rate * dt is
\* the rate itself in thrust units).
PropThrust(a) ==
    IF fuel[a] <= 0 THEN 0
    ELSE LET delta == target_thrust[a] - thrust_level[a] IN
         IF delta > 0
         THEN Min(Fps, thrust_level[a] + Min(IncreaseRate, delta))
         ELSE IF delta < 0
              THEN Max(0, thrust_level[a] - Min(DecreaseRate, 0 - delta))
              ELSE thrust_level[a]

\* PropulsionSystem._update_entity, rotation slew with the ease-in band.
PropRotation(a) ==
    IF fuel[a] <= 0 THEN trans_rot[a]
    ELSE LET d == ((target_angle[a] - trans_rot[a] + Pi) % (2 * Pi)) - Pi
             max_step == MaxRotationRate \div Fps
             step_mag == IF Abs(d) >= EaseBand THEN max_step
                         ELSE (max_step * Abs(d)) \div EaseBand
             reached == IF Abs(d) >= EaseBand THEN Abs(d) <= max_step
                        ELSE Abs(d) * EaseBand <= max_step * Abs(d)
         IN IF reached THEN target_angle[a]
            ELSE IF d >= 0 THEN trans_rot[a] + step_mag
                 ELSE trans_rot[a] - step_mag

\* PropulsionSystem._update_entity, fuel burn with the new thrust level
\* (burn_rate = 1.0).
PropFuel(a, level) ==
    IF fuel[a] <= 0 THEN fuel[a] ELSE Max(0, fuel[a] - level)

\* The force both ForceApplicationSystem and PhysicsSyncSystem._apply_forces
\* build from an entity: magnitude thrust_level * max_power along rotation
\* (the (sin, cos) vector in polar form).
ThrustForce(level, rot) == [mag |-> level * MaxPower, dir |-> rot]

\* game.py _update_physics_steps, lines 596-600: scripted control, site
\* motion, projection, propulsion and force application of one tick.
PhysicsPre ==
    /\ pc = "physics"
    /\ UNCHANGED extVars
    /\ script' = ScriptAdvance(script)
    /\ site_vel' = [site_vel EXCEPT !["ferry"] = ScriptVelocity(script')]
    /\ site_pos' = SiteMotion(site_pos, site_vel')
    /\ views' = ProjectViews(site_pos', site_vel', econ)
    /\ thrust_level' = [a \in Actors |->
                          IF a \in ActorSet THEN PropThrust(a) ELSE thrust_level[a]]
    /\ trans_rot' = [a \in Actors |->
                       IF a \in ActorSet THEN PropRotation(a) ELSE trans_rot[a]]
    /\ fuel' = [a \in Actors |->
                  IF a \in ActorSet THEN PropFuel(a, thrust_level'[a]) ELSE fuel[a]]
    /\ LET forced == {a \in ActorSet \cap DOMAIN bodies : thrust_level'[a] > 0}
       IN pending_forces' = [a \in DOMAIN pending_forces \cup forced |->
             IF a \in forced THEN ThrustForce(thrust_level'[a], trans_rot'[a])
             ELSE pending_forces[a]]
    /\ LET turned == ActorSet \cap DOMAIN bodies
       IN overrides' = [a \in DOMAIN overrides \cup turned |->
             IF a \in turned THEN trans_rot'[a] ELSE overrides[a]]
    /\ pc' = "step"
    /\ resolved' = NoResolve
    /\ UNCHANGED <<actors, ls_state, trans_pos, phys_vel, target_thrust,
                   target_angle, credits, econ, bodies, controls, contacts,
                   primary_uid, window_center_x, ci, user_ok>>

\* ------------------------------------------------------------ engine step
\* What space.step can leave a body with (position, velocity): the solver's
\* result is abstracted to the cases the contact rules distinguish, placed
\* relative to the sites' current positions.
OnSite(s, dy, v) ==
    [pos |-> <<site_pos[s][1], site_pos[s][2] + HalfH + dy>>, vel |-> v]

Motions ==
    {OnSite("pad", 0, v) : v \in {<<0, -1>>, <<0, 0 - SafeLandingVelocity>>,
                                  <<0, 0 - (SafeLandingVelocity + 1)>>,
                                  <<0, 1>>}}
    \cup {OnSite("pad", 16, <<0, -1>>),
          OnSite("pad", -1, <<0, 0 - 4 * Fps>>),
          OnSite("ferry", 0, site_vel["ferry"]),
          [pos |-> StartPos, vel |-> <<0, -1>>]}

\* PhysicsEngine.step, the per-body loop: the angle the body is left with.
\* An override is applied first; without a pending force the legacy
\* _controls angle then replaces it.
StepAngle(uid) ==
    LET a1 == IF uid \in DOMAIN overrides THEN overrides[uid]
              ELSE bodies[uid].angle
    IN IF uid \in DOMAIN pending_forces THEN a1
       ELSE IF uid \in DOMAIN controls THEN controls[uid].angle ELSE a1

\* PhysicsEngine.step: recentre the window on the anchor, consume overrides
\* and pending forces, integrate, and let the collision callbacks rewrite
\* the contact reports.  motions[a] is what space.step can leave body a with.
StepBodies(motions) ==
    IF AnchorUid = None
    THEN UNCHANGED <<bodies, overrides, pending_forces, contacts,
                     window_center_x>>
    ELSE /\ window_center_x' =
               EnsureWindowCentered(window_center_x, bodies[AnchorUid].pos[1])
         /\ overrides' = Drop(overrides, DOMAIN bodies)
         /\ pending_forces' = Drop(pending_forces, DOMAIN bodies)
         /\ \E col \in [DOMAIN bodies -> BOOLEAN] :
              \E mv \in {f \in [DOMAIN bodies -> UNION {motions[a] : a \in DOMAIN bodies}] :
                            \A a \in DOMAIN bodies : f[a] \in motions[a]} :
              /\ bodies' = [a \in DOMAIN bodies |->
                    [pos |-> mv[a].pos, vel |-> mv[a].vel,
                     angle |-> StepAngle(a)]]
              /\ contacts' = [a \in DOMAIN contacts \cup DOMAIN bodies |->
                    IF a \in DOMAIN bodies THEN col[a] ELSE contacts[a]]

\* The frame's engine_adapter.step(dt) call.
EngineStep ==
    /\ pc = "step"
    /\ UNCHANGED extVars
    /\ StepBodies([a \in DOMAIN bodies |-> Motions])
    /\ pc' = "sync"
    /\ UNCHANGED <<actors, ecsActorVars, siteVars, controls, primary_uid, ci,
                   user_ok, resolved>>

\* -------------------------------------------------------------- physics sync
\* PhysicsSyncSystem._apply_forces: after the step, every entity with thrust
\* queues its force through engine_adapter.apply_force, which carries no uid
\* and so lands on the adapter's primary actor; the last writer wins.
SyncForces(pf) ==
    LET thrusting == {i \in 1..Len(actors) : thrust_level[actors[i]] > 0} IN
    IF thrusting = {} \/ ResolveUid(primary_uid) = None THEN pf
    ELSE LET last == CHOOSE i \in thrusting : \A j \in thrusting : j <= i
         IN Put(pf, primary_uid,
                ThrustForce(thrust_level[actors[last]], trans_rot[actors[last]]))

\* EngineAdapter.get_pose()[0] / get_velocity()[0] with no uid: the primary
\* actor's body, or zeros when it has none.
PrimaryPose == IF ResolveUid(primary_uid) = None THEN Zero2
               ELSE bodies[primary_uid].pos
PrimaryVelocity == IF ResolveUid(primary_uid) = None THEN Zero2
                   ELSE bodies[primary_uid].vel

\* PhysicsSyncSystem.update: _apply_forces, then _sync_from_physics copies the
\* primary pose and velocity into every entity with PhysicsState.
PhysicsSync ==
    /\ pc = "sync"
    /\ UNCHANGED extVars
    /\ pending_forces' = SyncForces(pending_forces)
    /\ trans_pos' = [a \in Actors |->
                       IF a \in ActorSet THEN PrimaryPose ELSE trans_pos[a]]
    /\ phys_vel' = [a \in Actors |->
                      IF a \in ActorSet THEN PrimaryVelocity ELSE phys_vel[a]]
    /\ pc' = "contact"
    /\ ci' = 1
    /\ UNCHANGED <<actors, ls_state, trans_rot, thrust_level, target_thrust,
                   target_angle, fuel, credits, siteVars, bodies, controls,
                   overrides, contacts, primary_uid, window_center_x, user_ok,
                   resolved>>

\* ------------------------------------------------------------------ contact
\* LandingSiteSurfaceModel.get_sites, the inclusion test for one view, for the
\* span Range1D.from_center(cx, half_span).
InSpan(site, cx, half_span) ==
    2 * Abs(cx - site.x) <= site.size + 2 * half_span

GetSites(cx, half_span) == {s \in Sites : InSpan(views[s], cx, half_span)}

\* nearby_sites[0] of ContactSystem._resolve: the list is sorted by distance
\* to the span center, ties in _sites order.
NearestSite(cx, half_span) ==
    LET c == GetSites(cx, half_span) IN
    IF c = {} THEN None
    ELSE CHOOSE s \in c : \A t \in c :
            \/ Abs(views[s].x - cx) < Abs(views[t].x - cx)
            \/ /\ Abs(views[s].x - cx) = Abs(views[t].x - cx)
               /\ SiteIndex(s) <= SiteIndex(t)

\* Mutant of RelVel: landing decided on the absolute velocity.
AbsoluteVel(v, sv) == v

\* rel_vel of _can_land_on_site.
RelVel(v, sv) == VSub(v, sv)

\* Mutant of SpeedOk: the threshold itself passes.
SpeedOkInclusive(v) == LenSq(v) <= SafeLandingVelocity * SafeLandingVelocity

\* speed < ls.safe_landing_velocity (both paths compare strictly).
SpeedOk(v) == LenSq(v) < SafeLandingVelocity * SafeLandingVelocity

\* abs(trans.rotation) < ls.safe_landing_angle.
AngleOk(rot) == Abs(rot) < SafeLandingAngle

\* abs(lander_bottom_y - site.y) <= max(2.0, abs(rel_vy) * dt * 1.5 + 1.0),
\* both sides scaled by 2 * Fps.
InLandingBand(bottom_y, site_y, rel_vy) ==
    2 * Fps * Abs(bottom_y - site_y) <= Max(4 * Fps, 3 * Abs(rel_vy) + 2 * Fps)

\* ContactSystem._can_land_on_site.
CanLandOnSite(a, s) ==
    LET site == views[s]
        rel_vel == RelVel(phys_vel[a], site.vel)
    IN /\ ~(2 * Abs(trans_pos[a][1] - site.x) > site.size + 2 * HalfW)
       /\ ~(rel_vel[2] > 0)
       /\ AngleOk(trans_rot[a])
       /\ SpeedOk(rel_vel)
       /\ InLandingBand(trans_pos[a][2] - HalfH, site.y, rel_vel[2])

\* Mutant of SnapY: the landing keeps the actor's height.
KeepY(y, site_y) == y

\* trans.pos.y = site.y + half_h.
SnapY(y, site_y) == site_y + HalfH

\* ContactSystem._apply_landing.
ApplyLanding(a, s) ==
    /\ ls_state' = [ls_state EXCEPT ![a] = "landed"]
    /\ phys_vel' = [phys_vel EXCEPT ![a] = Zero2]
    /\ trans_rot' = [trans_rot EXCEPT ![a] = 0]
    /\ trans_pos' = [trans_pos EXCEPT
                        ![a] = <<trans_pos[a][1], SnapY(trans_pos[a][2], views[s].y)>>]
    /\ thrust_level' = [thrust_level EXCEPT ![a] = 0]
    /\ target_thrust' = [target_thrust EXCEPT ![a] = 0]
    /\ target_angle' = [target_angle EXCEPT ![a] = 0]
    /\ LET pays == ~econ[s].visited /\ econ[s].award # 0
           award == IF pays THEN econ[s].award ELSE 0
       IN /\ econ' = IF pays THEN [econ EXCEPT ![s].visited = TRUE] ELSE econ
          /\ credits' = [credits EXCEPT ![a] = @ + award]
    /\ bodies' = Teleport(bodies, ResolveUid(primary_uid), trans_pos'[a], 0)
    /\ UNCHANGED fuel

\* Mutant of ApplyCrash: the crash also levels the actor, as a landing does.
ApplyCrashLevelled(a) ==
    /\ ls_state' = [ls_state EXCEPT ![a] = "crashed"]
    /\ phys_vel' = [phys_vel EXCEPT ![a] = Zero2]
    /\ trans_rot' = [trans_rot EXCEPT ![a] = 0]
    /\ thrust_level' = [thrust_level EXCEPT ![a] = 0]
    /\ target_thrust' = [target_thrust EXCEPT ![a] = 0]
    /\ bodies' = Teleport(bodies, ResolveUid(primary_uid), trans_pos[a], 0)
    /\ UNCHANGED <<trans_pos, target_angle, fuel, credits, econ>>

\* ContactSystem._apply_crash.
ApplyCrash(a) ==
    /\ ls_state' = [ls_state EXCEPT ![a] = "crashed"]
    /\ phys_vel' = [phys_vel EXCEPT ![a] = Zero2]
    /\ thrust_level' = [thrust_level EXCEPT ![a] = 0]
    /\ target_thrust' = [target_thrust EXCEPT ![a] = 0]
    /\ bodies' = Teleport(bodies, ResolveUid(primary_uid), trans_pos[a], trans_rot[a])
    /\ UNCHANGED <<trans_pos, trans_rot, target_angle, fuel, credits, econ>>

\* report.get("colliding") of the report ContactSystem.update fetches with no
\* uid: the primary actor's.
PrimaryColliding ==
    IF ResolveUid(primary_uid) = None \/ primary_uid \notin DOMAIN contacts
    THEN FALSE ELSE contacts[primary_uid]

\* ContactSystem._resolve for one entity.
Resolve(a) ==
    LET site == NearestSite(trans_pos[a][1], HalfW) IN
    IF ls_state[a] # "flying"
    THEN UNCHANGED <<ecsActorVars, econ, bodies>>
    ELSE IF site # None /\ CanLandOnSite(a, site)
    THEN ApplyLanding(a, site)
    ELSE IF ~PrimaryColliding \/ phys_vel[a][2] > 0
    THEN UNCHANGED <<ecsActorVars, econ, bodies>>
    ELSE IF AngleOk(trans_rot[a]) /\ SpeedOk(phys_vel[a]) /\ site # None
    THEN ApplyLanding(a, site)
    ELSE ApplyCrash(a)

\* ContactSystem.update: one _resolve call per lander entity, in World order.
ContactResolve ==
    /\ pc = "contact"
    /\ UNCHANGED extVars
    /\ ci \in 1..Len(actors)
    /\ Resolve(actors[ci])
    /\ resolved' = [uid |-> actors[ci],
                    state |-> ls_state[actors[ci]],
                    pos |-> trans_pos[actors[ci]],
                    vel |-> phys_vel[actors[ci]],
                    rot |-> trans_rot[actors[ci]],
                    credits |-> credits[actors[ci]],
                    fuel |-> fuel[actors[ci]],
                    target_angle |-> target_angle[actors[ci]],
                    econ |-> econ,
                    site |-> NearestSite(trans_pos[actors[ci]][1], HalfW),
                    colliding |-> PrimaryColliding]
    /\ IF ci < Len(actors)
       THEN ci' = ci + 1 /\ pc' = "contact"
       ELSE ci' = 0 /\ pc' = "physics"
    /\ UNCHANGED <<actors, site_pos, site_vel, script, views, controls,
                   overrides, pending_forces, contacts, primary_uid,
                   window_center_x, user_ok>>

\* ------------------------------------------------------------ frame systems
\* Control tuples (target_thrust, target_angle, refuel) a controller can hand
\* to the loop in one frame; NoControls is the routing system's
\* _broadcast_controls default.
\* A None entry of the tuple is a FALSE has_ flag.
Controls(ht, t, ha, an, r) ==
    [has_thrust |-> ht, thrust |-> t, has_angle |-> ha, angle |-> an, refuel |-> r]
NoControls == Controls(FALSE, 0, FALSE, 0, FALSE)
ControlInputs ==
    {Controls(TRUE, 2 * Fps, FALSE, 0, FALSE),
     Controls(TRUE, 0, FALSE, 0, FALSE),
     Controls(FALSE, 0, TRUE, TiltAngle, FALSE),
     Controls(FALSE, 0, FALSE, 0, TRUE)}

\* game.py run: an actor has an entry in controls_by_uid only if it is the
\* active actor and _process_input produced user controls, or it has a bot
\* and _update_bot_steps found it flying or landed.
HasBot(a) == a = "bot"
MayControl(a) ==
    \/ a = primary_uid /\ user_ok
    \/ HasBot(a) /\ ls_state[a] \in {"flying", "landed"}

\* ControlRoutingSystem.update.
RouteThrust(tt, c) ==
    IF ~c.has_thrust THEN tt ELSE Max(0, Min(Fps, c.thrust))
RouteAngle(ta, c) == IF ~c.has_angle THEN ta ELSE c.angle

\* RefuelSystem._update_entity reaches self.targets.get_targets, which the
\* LandingSiteSurfaceModel passed by game.py does not define.
RefuelRaises(a, c) ==
    ls_state[a] = "landed" /\ c.refuel /\ fuel[a] < MaxFuel

\* Mutant of StateAfter: thrust also lifts a crashed actor off.
StateAfterRevive(st, tt, fl) ==
    LET s1 == IF st \in {"landed", "crashed"} /\ tt > 0 THEN "flying" ELSE st
    IN IF s1 = "flying" /\ fl <= 0 /\ tt <= 0 THEN "out_of_fuel" ELSE s1

\* StateTransitionSystem.update for one entity: takeoff, then out_of_fuel.
StateAfter(st, tt, fl) ==
    LET s1 == IF st = "landed" /\ tt > 0 THEN "flying" ELSE st
    IN IF s1 = "flying" /\ fl <= 0 /\ tt <= 0 THEN "out_of_fuel" ELSE s1

\* Mutant of TakeoffPos: the takeoff leaves the position where it was.
TakeoffPosStay(pos) == pos

\* StateTransitionSystem.update, takeoff: trans.pos.y += 1.0.
TakeoffPos(pos) == <<pos[1], pos[2] + TakeoffBump>>

\* game.py run, lines 463-502: control routing, refuel, state transition and
\* the takeoff teleport of every actor that was landed and now flies.
FrameSystems ==
    /\ pc = "physics"
    /\ UNCHANGED extVars
    /\ \E ctl \in [ActorSet -> ControlInputs \cup {NoControls}] :
        /\ \A a \in ActorSet : ~MayControl(a) => ctl[a] = NoControls
        /\ target_thrust' = [a \in Actors |->
              IF a \in ActorSet THEN RouteThrust(target_thrust[a], ctl[a])
              ELSE target_thrust[a]]
        /\ target_angle' = [a \in Actors |->
              IF a \in ActorSet THEN RouteAngle(target_angle[a], ctl[a])
              ELSE target_angle[a]]
        /\ IF \E a \in ActorSet : RefuelRaises(a, ctl[a])
           THEN /\ pc' = "error"
                /\ UNCHANGED <<ls_state, trans_pos, bodies>>
           ELSE /\ ls_state' = [a \in Actors |->
                      IF a \in ActorSet
                      THEN StateAfter(ls_state[a], target_thrust'[a], fuel[a])
                      ELSE ls_state[a]]
                /\ trans_pos' = [a \in Actors |->
                      IF a \in ActorSet /\ ls_state[a] = "landed"
                         /\ target_thrust'[a] > 0
                      THEN TakeoffPos(trans_pos[a])
                      ELSE trans_pos[a]]
                /\ bodies' = [a \in DOMAIN bodies |->
                      IF a \in ActorSet /\ ls_state[a] = "landed"
                         /\ ls_state'[a] = "flying"
                      THEN [pos |-> trans_pos'[a], vel |-> Zero2,
                            angle |-> trans_rot[a]]
                      ELSE bodies[a]]
                /\ pc' = "frame"
    /\ resolved' = NoResolve
    /\ UNCHANGED <<actors, trans_rot, phys_vel, thrust_level, fuel, credits,
                   siteVars, controls, overrides, pending_forces, contacts,
                   primary_uid, window_center_x, ci, user_ok>>

\* ----------------------------------------------------------- specification
Next ==
    \/ ProcessInput
    \/ PhysicsPre
    \/ EngineStep
    \/ PhysicsSync
    \/ ContactResolve
    \/ FrameSystems

Spec == Init /\ [][Next]_vars

\* ================================================================ properties
\* The ContactSystem._resolve call recorded in resolved, seen from the state it
\* leaves: resolved holds the entity's components as the call found them, the
\* variables hold them as it left them, and views is the read model it used.
Resolved == resolved.uid # None
WasFlying == Resolved /\ resolved.state = "flying"
JustLanded == WasFlying /\ ls_state[resolved.uid] = "landed"
JustCrashed == WasFlying /\ ls_state[resolved.uid] = "crashed"
OverSite == WasFlying /\ resolved.site # None
SiteRelVel == RelVel(resolved.vel, views[resolved.site].vel)
BottomY == resolved.pos[2] - HalfH
InBand == InLandingBand(BottomY, views[resolved.site].y, SiteRelVel[2])
SafeSq == SafeLandingVelocity * SafeLandingVelocity

\* C1: every landing on a site leaves the site visited and pays the actor the
\* site's award if the site was unvisited before, and 0 otherwise, so that the
\* landings on one site pay its award exactly once.
C1_AwardOncePerSite ==
    JustLanded =>
        /\ econ[resolved.site].visited
        /\ credits[resolved.uid] = resolved.credits +
              (IF resolved.econ[resolved.site].visited THEN 0
               ELSE resolved.econ[resolved.site].award)

C3_FarFromPlaneCrashes ==
    /\ OverSite /\ resolved.colliding /\ AngleOk(resolved.rot)
    /\ resolved.vel[2] <= 0 /\ SpeedOk(resolved.vel)
    /\ SiteRelVel[2] <= 0 /\ SpeedOk(SiteRelVel)
    /\ ~InBand
    => /\ JustCrashed
       /\ trans_pos[resolved.uid] = resolved.pos

\* C4: an actor over a site whose bottom is below the site plane by no more
\* than it travelled in dt, faster than safe_landing_velocity, crashes in
\* this resolution whether or not the report says colliding.
C4_PlaneCrossingCrashes ==
    /\ OverSite
    /\ BottomY < views[resolved.site].y
    /\ Fps * (views[resolved.site].y - BottomY) <= Abs(SiteRelVel[2])
    /\ SiteRelVel[2] < 0
    /\ LenSq(SiteRelVel) > SafeSq /\ LenSq(resolved.vel) > SafeSq
    => JustCrashed

\* The steps of the loop: the reset of _process_input, and the per-frame
\* systems.
ResetStep(a) == pc = "frame" /\ a = primary_uid /\ ls_state'[a] = "flying"
TakeoffStep(a) ==
    /\ pc = "physics" /\ pc' = "frame"
    /\ target_thrust'[a] > 0
    /\ ls_state'[a] = "flying"

\* C5 (amended): crashed is absorbing and landed is left only on purpose.  A
\* crashed actor stays crashed through every step except the reset of the
\* active actor; a landed actor stays landed through every step except that
\* reset and the state-transition takeoff with target_thrust > 0, both of
\* which make it flying.
C5_AbsorbingButResetAndTakeoff ==
    [][\A a \in Actors :
        /\ ls_state[a] = "crashed" /\ ls_state'[a] # "crashed" => ResetStep(a)
        /\ ls_state[a] = "landed" /\ ls_state'[a] # "landed" =>
              ResetStep(a) \/ TakeoffStep(a)]_vars

\* C5 witness: a contact-resolution step ran on an actor that was already
\* crashed, with thrust requested, and left it crashed.
C5_Witness ==
    /\ Resolved /\ resolved.state = "crashed"
    /\ ls_state[resolved.uid] = "crashed"
    /\ target_thrust[resolved.uid] > 0

\* C5 as stated: an actor that is landed or crashed changes state only by the
\* reset.
C5_OnlyResetLeaves ==
    [][\A a \in Actors :
        ls_state[a] \in {"landed", "crashed"} /\ ls_state'[a] # ls_state[a]
            => ResetStep(a)]_vars

\* C6: a flying, upright actor over a site, with its bottom within the
\* landing band and its velocity equal to the site's velocity, lands,
\* whatever that shared velocity is.
C6_RelativeVelocityLanding ==
    /\ OverSite /\ AngleOk(resolved.rot)
    /\ resolved.vel = views[resolved.site].vel
    /\ InLandingBand(BottomY, views[resolved.site].y, 0)
    => JustLanded

\* C6 witness: a landing on the moving ferry at the ferry's own velocity,
\* whose magnitude is above safe_landing_velocity.
C6_Witness ==
    /\ JustLanded
    /\ resolved.vel = views[resolved.site].vel
    /\ LenSq(resolved.vel) > SafeSq

\* C7: right after a flying -> landed transition the actor's velocity is
\* (0,0), its rotation 0, its y the site's y + half_height, its x unchanged,
\* and its thrust_level and target_thrust 0.
C7_LandingEffects ==
    JustLanded =>
        /\ phys_vel[resolved.uid] = Zero2
        /\ trans_rot[resolved.uid] = 0
        /\ trans_pos[resolved.uid][2] = views[resolved.site].y + HalfH
        /\ trans_pos[resolved.uid][1] = resolved.pos[1]
        /\ thrust_level[resolved.uid] = 0
        /\ target_thrust[resolved.uid] = 0

\* C7 witness: a landing that moved the actor vertically.
C7_Witness ==
    JustLanded /\ resolved.pos[2] # trans_pos[resolved.uid][2]

\* C8: a flying -> crashed transition zeroes velocity, thrust_level and
\* target_thrust and leaves position, rotation, target_angle, fuel, credits
\* and every site's award and visited flag as they were.
C8_CrashEffects ==
    JustCrashed =>
        /\ phys_vel[resolved.uid] = Zero2
        /\ thrust_level[resolved.uid] = 0
        /\ target_thrust[resolved.uid] = 0
        /\ trans_pos[resolved.uid] = resolved.pos
        /\ trans_rot[resolved.uid] = resolved.rot
        /\ target_angle[resolved.uid] = resolved.target_angle
        /\ fuel[resolved.uid] = resolved.fuel
        /\ credits[resolved.uid] = resolved.credits
        /\ econ = resolved.econ

\* C8 witness: a crash of a tilted, moving actor after a paid landing.
C8_Witness ==
    /\ JustCrashed
    /\ resolved.rot # 0
    /\ resolved.vel # Zero2
    /\ resolved.credits > 0

\* C9: landing on an unvisited site whose award is 0 leaves the site visited
\* and the actor's credits unchanged.
C9_ZeroAwardMarksVisited ==
    /\ JustLanded
    /\ ~resolved.econ[resolved.site].visited
    /\ resolved.econ[resolved.site].award = 0
    => /\ econ[resolved.site].visited
       /\ credits[resolved.uid] = resolved.credits

\* C10: within a tick, forces are queued before the engine integrates and
\* none after: from the integration to the end of the tick's contact
\* resolution the engine's queue of pending forces does not change.
C10_NoForceAfterIntegration ==
    [][(pc = "sync" \/ pc = "contact") => UNCHANGED pending_forces]_vars

\* C11: in each PhysicsEngine.step an override angle that was queued for an
\* actor is the angle its body has at integration, whether or not a force was
\* queued for it and whatever the stored legacy controls angle is.
C11_OverrideAngleWins ==
    [][pc = "step" =>
          \A a \in DOMAIN bodies \cap DOMAIN overrides :
              bodies'[a].angle = overrides[a]]_vars


\* ============================================= PhysicsEngine, called directly
\* The uid argument of a call: a name, or None for "no uid given".
UidArgs == Actors \cup {None}

\* Where a caller attaches or teleports a body: at the origin, off the
\* terrain grid, and a quarter window away.
ApiXs == {0, 13, HalfWidthCfg \div 4}

\* A call that returns nothing.
Call(op, uid) == [op |-> op, uid |-> uid, val |-> None, err |-> FALSE]

\* A call that returns val.
Returned(op, uid, val) == [op |-> op, uid |-> uid, val |-> val, err |-> FALSE]

\* The engine's registries and window.
engineVars == <<bodies, controls, overrides, pending_forces, contacts,
                primary_uid, window_center_x, masses, shapeVars>>

\* A fresh PhysicsEngine: no bodies, no primary actor, no terrain window.
InitEngine ==
    /\ actors = << >>
    /\ ls_state = [a \in Actors |-> "flying"]
    /\ trans_pos = [a \in Actors |-> StartPos]
    /\ trans_rot = [a \in Actors |-> 0]
    /\ phys_vel = [a \in Actors |-> Zero2]
    /\ thrust_level = [a \in Actors |-> 0]
    /\ target_thrust = [a \in Actors |-> 0]
    /\ target_angle = [a \in Actors |-> 0]
    /\ fuel = [a \in Actors |-> MaxFuel]
    /\ credits = [a \in Actors |-> 0]
    /\ site_pos = [s \in Sites |-> IF s = "pad" THEN PadPos ELSE FerryPos]
    /\ site_vel = [s \in Sites |-> Zero2]
    /\ script = [idx |-> 0, elapsed |-> 0]
    /\ econ = [s \in Sites |-> [award |-> 0, visited |-> FALSE]]
    /\ views = ProjectViews(site_pos, site_vel, econ)
    /\ bodies = EmptyDict
    /\ controls = EmptyDict
    /\ overrides = EmptyDict
    /\ pending_forces = EmptyDict
    /\ contacts = EmptyDict
    /\ primary_uid = None
    /\ window_center_x = << >>
    /\ masses = EmptyDict
    /\ shapes = EmptyDict
    /\ shape_to_uid = EmptyDict
    /\ space = {}
    /\ arbiters = NoArbiters
    /\ ret = NoCall
    /\ ncalls = 0
    /\ store = << >>
    /\ query = NoQuery
    /\ pc = "api"
    /\ ci = 0
    /\ user_ok = FALSE
    /\ resolved = NoResolve

\* What every direct call leaves alone: the ECS world.  actors holds the
\* engine's uids in the insertion order of PhysicsEngine._bodies.
ApiFrame ==
    /\ pc = "api"
    /\ ncalls < MaxCalls
    /\ ncalls' = ncalls + 1
    /\ UNCHANGED <<ecsActorVars, siteVars, queryVars, pc, ci, user_ok, resolved>>

\* The ids of n new shapes: id() is unique among the objects alive, so any
\* id not held by a live shape can come back; the n smallest are taken.
FreshIds(n, live) ==
    {i \in 1..(Cardinality(live) + n) :
        i \notin live /\ Cardinality({j \in 1..i : j \notin live}) <= n}

\* PhysicsEngine._remove_actor(uid): the registries it leaves.  The primary
\* uid, when it was uid, moves to the first body left, or to None.
Removed(uid) ==
    LET rest == SelectSeq(actors, LAMBDA a : a # uid)
        old == IF uid \in DOMAIN shapes THEN shapes[uid] ELSE {}
    IN [order |-> rest,
        bodies |-> Drop(bodies, {uid}),
        masses |-> Drop(masses, {uid}),
        shapes |-> Drop(shapes, {uid}),
        shape_to_uid |-> Drop(shape_to_uid, old),
        space |-> IF uid \in DOMAIN bodies THEN space \ old ELSE space,
        arbiters |-> [arbiters EXCEPT !.state = Drop(@, old \X Segments)],
        controls |-> Drop(controls, {uid}),
        contacts |-> Drop(contacts, {uid}),
        overrides |-> Drop(overrides, {uid}),
        pending_forces |-> Drop(pending_forces, {uid}),
        primary |-> IF primary_uid = uid
                    THEN (IF rest = << >> THEN None ELSE rest[1])
                    ELSE primary_uid]

\* _remove_actor(uid), then the registration shared by attach_lander and
\* attach_lander_from_polygons: a body of n shapes at x with the given angle.
Attach(uid, x, angle, n) ==
    LET r == Removed(uid)
        ids == FreshIds(n, r.space)
    IN /\ actors' = Append(r.order, uid)
       /\ bodies' = Put(r.bodies, uid, [pos |-> <<x, StartPos[2]>>,
                                        vel |-> Zero2, angle |-> angle])
       /\ masses' = Put(r.masses, uid, LanderMass)
       /\ shapes' = Put(r.shapes, uid, ids)
       /\ shape_to_uid' = [i \in DOMAIN r.shape_to_uid \cup ids |->
                             IF i \in ids THEN uid ELSE r.shape_to_uid[i]]
       /\ space' = r.space \cup ids
       /\ arbiters' = r.arbiters
       /\ controls' = Put(r.controls, uid, [thrust |-> 0, angle |-> angle])
       /\ contacts' = Put(r.contacts, uid, FALSE)
       /\ overrides' = r.overrides
       /\ pending_forces' = r.pending_forces
       /\ primary_uid' = IF r.primary = None THEN uid ELSE r.primary
       /\ window_center_x' = EnsureWindowCentered(window_center_x, x)

\* PhysicsEngine.attach_lander(width, height, mass, uid, start_pos,
\* start_angle): one triangle.
AttachLander ==
    /\ ApiFrame
    /\ \E uid \in Actors, x \in ApiXs, angle \in {0, TiltAngle} :
        /\ Attach(uid, x, angle, 1)
        /\ ret' = Call("attach_lander", uid)

\* PhysicsEngine.attach_lander_from_polygons(polygons, mass, uid, ...): one
\* shape per polygon; without polygons it falls back to attach_lander.
AttachLanderFromPolygons ==
    /\ ApiFrame
    /\ \E uid \in Actors, npoly \in {0, 2} :
        /\ Attach(uid, 0, 0, IF npoly = 0 THEN 1 ELSE npoly)
        /\ ret' = Call("attach_lander_from_polygons", uid)

\* PhysicsEngine._remove_actor(uid), on its own.
RemoveActor ==
    /\ ApiFrame
    /\ \E uid \in Actors :
        LET r == Removed(uid)
        IN /\ actors' = r.order
           /\ bodies' = r.bodies
           /\ masses' = r.masses
           /\ shapes' = r.shapes
           /\ shape_to_uid' = r.shape_to_uid
           /\ space' = r.space
           /\ arbiters' = r.arbiters
           /\ controls' = r.controls
           /\ contacts' = r.contacts
           /\ overrides' = r.overrides
           /\ pending_forces' = r.pending_forces
           /\ primary_uid' = r.primary
           /\ ret' = Call("_remove_actor", uid)
    /\ UNCHANGED window_center_x

\* PhysicsEngine.set_lander_controls(thrust_force, angle_rad, uid).
SetLanderControls ==
    /\ ApiFrame
    /\ UNCHANGED shapeVars
    /\ \E uid \in UidArgs, angle \in {0, TiltAngle} :
        /\ controls' = IF ResolveUid(uid) = None THEN controls
                       ELSE Put(controls, ResolveUid(uid),
                                [thrust |-> 0, angle |-> angle])
        /\ ret' = Call("set_lander_controls", uid)
    /\ UNCHANGED <<actors, bodies, overrides, pending_forces, contacts,
                   primary_uid, window_center_x, masses>>

\* PhysicsEngine.override(angle, uid).
Override ==
    /\ ApiFrame
    /\ UNCHANGED shapeVars
    /\ \E uid \in UidArgs :
        /\ overrides' = IF ResolveUid(uid) = None THEN overrides
                        ELSE Put(overrides, ResolveUid(uid), TiltAngle)
        /\ ret' = Call("override", uid)
    /\ UNCHANGED <<actors, bodies, controls, pending_forces, contacts,
                   primary_uid, window_center_x, masses>>

\* PhysicsEngine.apply_force(force, point, uid).
ApplyForce ==
    /\ ApiFrame
    /\ UNCHANGED shapeVars
    /\ \E uid \in UidArgs :
        /\ pending_forces' = IF ResolveUid(uid) = None THEN pending_forces
                             ELSE Put(pending_forces, ResolveUid(uid),
                                      ThrustForce(Fps, 0))
        /\ ret' = Call("apply_force", uid)
    /\ UNCHANGED <<actors, bodies, controls, overrides, contacts,
                   primary_uid, window_center_x, masses>>

\* PhysicsEngine.set_lander_mass(mass, uid).
SetLanderMass ==
    /\ ApiFrame
    /\ UNCHANGED shapeVars
    /\ \E uid \in UidArgs :
        /\ masses' = IF ResolveUid(uid) = None THEN masses
                     ELSE IF ResolveUid(uid) \notin DOMAIN masses THEN masses
                     ELSE Put(masses, ResolveUid(uid), LanderMass + 1)
        /\ ret' = Call("set_lander_mass", uid)
    /\ UNCHANGED <<actors, bodies, controls, overrides, pending_forces,
                   contacts, primary_uid, window_center_x>>

\* PhysicsEngine.teleport_lander(pos, angle, clear_velocity=True, uid).
TeleportLander ==
    /\ ApiFrame
    /\ UNCHANGED shapeVars
    /\ \E uid \in UidArgs, x \in ApiXs :
        /\ bodies' = IF ResolveUid(uid) = None THEN bodies
                     ELSE Teleport(bodies, ResolveUid(uid),
                                   <<x, StartPos[2]>>, 0)
        /\ ret' = Call("teleport_lander", uid)
    /\ UNCHANGED <<actors, controls, overrides, pending_forces, contacts,
                   primary_uid, window_center_x, masses>>

\* PhysicsEngine.set_primary_actor(uid).
SetPrimaryActor ==
    /\ ApiFrame
    /\ UNCHANGED shapeVars
    /\ \E uid \in UidArgs :
        /\ primary_uid' = IF uid = None THEN None
                          ELSE IF uid \in DOMAIN bodies THEN uid
                          ELSE primary_uid
        /\ ret' = Call("set_primary_actor", uid)
    /\ UNCHANGED <<actors, bodies, controls, overrides, pending_forces,
                   contacts, window_center_x, masses>>

\* PhysicsEngine.get_pose(uid): position and angle, zeros without a body.
GetPose ==
    /\ ApiFrame
    /\ \E uid \in UidArgs :
        ret' = Returned("get_pose", uid,
                 IF ResolveUid(uid) = None THEN [pos |-> Zero2, angle |-> 0]
                 ELSE IF ResolveUid(uid) \notin DOMAIN bodies
                      THEN [pos |-> Zero2, angle |-> 0]
                 ELSE [pos |-> bodies[ResolveUid(uid)].pos,
                       angle |-> bodies[ResolveUid(uid)].angle])
    /\ UNCHANGED <<actors, engineVars>>

\* PhysicsEngine.get_velocity(uid): the linear velocity, zero without a body.
GetVelocity ==
    /\ ApiFrame
    /\ \E uid \in UidArgs :
        ret' = Returned("get_velocity", uid,
                 IF ResolveUid(uid) = None THEN Zero2
                 ELSE IF ResolveUid(uid) \notin DOMAIN bodies THEN Zero2
                 ELSE bodies[ResolveUid(uid)].vel)
    /\ UNCHANGED <<actors, engineVars>>

\* PhysicsEngine.get_contact_report(uid): the colliding flag of the report,
\* FALSE (the empty report) without one.
GetContactReport ==
    /\ ApiFrame
    /\ \E uid \in UidArgs :
        ret' = Returned("get_contact_report", uid,
                 IF ResolveUid(uid) = None THEN FALSE
                 ELSE IF ResolveUid(uid) \notin DOMAIN contacts THEN FALSE
                 ELSE contacts[ResolveUid(uid)])
    /\ UNCHANGED <<actors, engineVars>>

\* What space.step can leave a free body with: where it was, or an eighth of
\* the window further along x.
Drift(a) ==
    {[pos |-> bodies[a].pos, vel |-> bodies[a].vel],
     [pos |-> <<bodies[a].pos[1] + HalfWidthCfg \div 8, bodies[a].pos[2]>>,
      vel |-> <<Fps, 0>>]}

\* PhysicsEngine.step(dt), called directly.
Step ==
    /\ ApiFrame
    /\ UNCHANGED shapeVars
    /\ StepBodies([a \in DOMAIN bodies |-> Drift(a)])
    /\ ret' = Call("step", None)
    /\ UNCHANGED <<actors, controls, primary_uid, masses>>

\* The static landing-site colliders the engine holds.  PhysicsEngine keeps
\* one registry of static shapes, _terrain_shapes, and none for sites.
LandingSiteShapes == {}

\* The collider lists a level passes: (x, y, size) per elevated site.
ColliderLists == {{}, {<<0, 40, 100>>}, {<<0, 40, 100>>, <<300, 60, 80>>}}

\* engine.set_landing_site_colliders(L), as level setup calls it: the class
\* defines no such attribute, so the call raises AttributeError and the engine
\* is as it was.
SetLandingSiteColliders ==
    /\ ApiFrame
    /\ \E L \in ColliderLists :
        ret' = [op |-> "set_landing_site_colliders", uid |-> None, val |-> L,
                err |-> TRUE]
    /\ UNCHANGED <<actors, engineVars>>

NextEngine ==
    \/ SetLandingSiteColliders
    \/ AttachLander
    \/ AttachLanderFromPolygons
    \/ RemoveActor
    \/ SetLanderControls
    \/ Override
    \/ ApplyForce
    \/ SetLanderMass
    \/ TeleportLander
    \/ SetPrimaryActor
    \/ GetPose
    \/ GetVelocity
    \/ GetContactReport
    \/ Step

SpecEngine == InitEngine /\ [][NextEngine]_vars

\* ------------------------------------------------------------------- C12
\* The call just made named a uid that had no body when it was made.
UnknownUidCall == ret'.uid # None /\ ret'.uid \notin DOMAIN bodies

\* C12: a set_lander_controls, override, apply_force, set_lander_mass or
\* teleport_lander call naming an unregistered uid raises nothing and leaves
\* every engine registry as it was; get_pose, get_velocity and
\* get_contact_report for such a uid return the zero pose, zero velocity and
\* empty report; step on an engine without bodies changes nothing.
C12_UnknownUidIsNoOp ==
    [][(/\ (ret'.op = "set_lander_controls" \/ ret'.op = "override"
            \/ ret'.op = "apply_force" \/ ret'.op = "set_lander_mass"
            \/ ret'.op = "teleport_lander")
        /\ UnknownUidCall
        => ~ret'.err /\ UNCHANGED engineVars)
       /\ (ret'.op = "get_pose" /\ UnknownUidCall
           => ~ret'.err /\ ret'.val = [pos |-> Zero2, angle |-> 0]
              /\ UNCHANGED engineVars)
       /\ (ret'.op = "get_velocity" /\ UnknownUidCall
           => ~ret'.err /\ ret'.val = Zero2 /\ UNCHANGED engineVars)
       /\ (ret'.op = "get_contact_report" /\ UnknownUidCall
           => ~ret'.err /\ ret'.val = FALSE /\ UNCHANGED engineVars)
       /\ (ret'.op = "step" /\ DOMAIN bodies = {}
           => ~ret'.err /\ UNCHANGED engineVars)]_vars

\* An override for a uid without a body was made on an engine that holds
\* another actor's body.
C12_Witness ==
    /\ ret.op = "override"
    /\ ret.uid # None
    /\ ret.uid \notin DOMAIN bodies
    /\ DOMAIN bodies # {}

\* ------------------------------------------------------------------- C13
\* PhysicsEngine._rebuild_window(center_x): the x of every vertex of the
\* window it builds, from center_x - half_width in steps of segment_step up to
\* center_x + half_width.
WindowXs(center_x) ==
    LET start_x == center_x - HalfWidthCfg
        end_x == center_x + HalfWidthCfg
    IN {start_x + k * SegmentStep : k \in 0..((end_x - start_x) \div SegmentStep)}

\* C13: every vertex x of the terrain window the engine holds is an integer
\* multiple of segment_step, whatever center the window was built around (so
\* windows built around different centers sample the terrain at the same xs).
C13_WindowVerticesGridAligned ==
    window_center_x # << >> =>
        \A x \in WindowXs(window_center_x[1]) : x % SegmentStep = 0

\* ------------------------------------------------------------------- C14
\* The anchor's x is closer than the rebuild threshold, 0.25 * half_width, to
\* the window center w.
WithinThreshold(x, w) == w # << >> /\ 4 * Abs(x - w[1]) < HalfWidthCfg

\* C14: the window is rebuilt only for the anchor.  A step on an engine with
\* an anchor leaves the anchor strictly within 0.25 * half_width of the window
\* center as of its window maintenance, and keeps the window it had when the
\* anchor already was; attaching an actor that is not the anchor, or
\* teleporting one, leaves the window center as it was.
C14_WindowFollowsAnchorOnly ==
    [][/\ (ret'.op = "step" /\ AnchorUid # None
           => /\ WithinThreshold(bodies[AnchorUid].pos[1], window_center_x')
              /\ (WithinThreshold(bodies[AnchorUid].pos[1], window_center_x)
                  => UNCHANGED window_center_x))
       /\ (ret'.op = "attach_lander" /\ AnchorUid' # ret'.uid
           => UNCHANGED window_center_x)
       /\ (ret'.op = "teleport_lander" /\ ResolveUid(ret'.uid) # AnchorUid
           => UNCHANGED window_center_x)]_vars

\* ===================================================== sensor: proximity
\* Lengths of the sensor queries are in 1/Scale of a world unit.
Scale == 4

\* ProximityCache.capacity and ProximityCache.quantize (in world units).
Capacity == 2
Quantize == 1

\* float("inf"), the distance closest_point_on_terrain returns when no
\* segment gave a finite distance.
Inf == 1000000

\* Python's round(n / d): to the nearest integer, halves to the even one.
RoundHalfEven(n, d) ==
    LET f == n \div d
        r == n % d
    IN IF 2 * r < d THEN f
       ELSE IF 2 * r > d THEN f + 1
       ELSE IF f % 2 = 0 THEN f ELSE f + 1

\* get_proximity_contact: the cache key, each of x, y and range rounded to
\* the quantum (in world units).
CacheKey(x, y, range) ==
    <<RoundHalfEven(x, Quantize * Scale) * Quantize,
      RoundHalfEven(y, Quantize * Scale) * Quantize,
      RoundHalfEven(range, Quantize * Scale) * Quantize>>

\* The terrains a query is made over: flat ground at height h, or a sampler
\* whose samples are NaN.
Terrains ==
    {[ok |-> TRUE, h |-> h] : h \in {-1, 32, -20}} \cup {[ok |-> FALSE, h |-> 0]}

\* Query positions and ranges: x at 0, 0.5 and 1.5, y at 10, ranges around the
\* quantum boundaries 2 and 10.
ProxXs == {0, 2, 6}
ProxY == 10 * Scale
ProxRanges == {8, 38, 40, 42}

\* closest_point_on_terrain over a flat terrain: the point straight below (or
\* above) the position; over NaN samples no segment improves on infinity.
ClosestPointOnTerrain(terrain, x, y) ==
    IF terrain.ok
    THEN [cx |-> x, cy |-> terrain.h, dist |-> Abs(y - terrain.h)]
    ELSE [cx |-> x, cy |-> 0, dist |-> Inf]

\* key in cache.store, and the entry stored under it.
HasKey(st, key) == \E i \in 1..Len(st) : st[i].key = key
Lookup(st, key) == st[CHOOSE i \in 1..Len(st) : st[i].key = key]

\* cache.store.pop(key).
PopKey(st, key) == SelectSeq(st, LAMBDA e : e.key # key)

\* The contact a query answers with; none is marked by found = FALSE.
NoContact == [found |-> FALSE, x |-> 0, y |-> 0, distance |-> 0]
Contact(val) == [found |-> TRUE, x |-> val.cx, y |-> val.cy, distance |-> val.dist]

\* The cache-hit path answering whatever is stored.
HitAnswerUnchecked(val, range) == Contact(val)

\* The cache-hit path: the stored point, unless its distance is not finite or
\* exceeds the requested range.
HitAnswer(val, range) ==
    IF val.dist = Inf \/ val.dist > range THEN NoContact ELSE Contact(val)

\* The cache-hit path leaving the store's order alone.
HitStoreUntouched(st, key) == st

\* The cache-hit path: pop the entry and store it again as the most recent.
HitStore(st, key) == Append(PopKey(st, key), Lookup(st, key))

\* The while loop enforcing the capacity: popitem(last=False) until at most
\* max(1, capacity) entries are left.
Evict(st) ==
    IF Len(st) > Max(1, Capacity)
    THEN SubSeq(st, Len(st) - Max(1, Capacity) + 1, Len(st))
    ELSE st

\* The cache-miss path storing whatever the search returned.
MissStoreAlways(st, key, val, range) ==
    Evict(Append(PopKey(st, key), [key |-> key, val |-> val]))

\* The cache-miss path: nothing is stored when no point is within range;
\* otherwise the point is stored as the most recent and the capacity enforced.
MissStore(st, key, val, range) ==
    IF val.dist = Inf \/ val.dist > range THEN st
    ELSE Evict(Append(PopKey(st, key), [key |-> key, val |-> val]))

\* sensor.get_proximity_contact(pos, terrain, range).
GetProximityContact ==
    /\ \E x \in ProxXs, range \in ProxRanges, terrain \in Terrains :
        LET key == CacheKey(x, ProxY, range)
            hit == HasKey(store, key)
            val == IF hit THEN Lookup(store, key).val
                   ELSE ClosestPointOnTerrain(terrain, x, ProxY)
        IN /\ store' = IF hit THEN HitStore(store, key)
                       ELSE MissStore(store, key, val, range)
           /\ query' = [op |-> "get_proximity_contact", x |-> x, y |-> ProxY,
                        range |-> range, key |-> key, hit |-> hit,
                        evicted |-> IF hit \/ val.dist = Inf \/ val.dist > range
                                    THEN 0
                                    ELSE Len(store) + 1 - Len(store'),
                        contact |-> IF hit THEN HitAnswer(val, range)
                                    ELSE IF val.dist = Inf \/ val.dist > range
                                         THEN NoContact
                                    ELSE Contact(val)]
    /\ UNCHANGED <<actors, ecsActorVars, siteVars, engineVars, ret, ncalls,
                   pc, ci, user_ok, resolved>>

NextProximity == GetProximityContact

SpecProximity == Init /\ [][NextProximity]_vars

\* ------------------------------------------------------------------- C15
\* The step is a get_proximity_contact call.
ProximityCall == query'.op = "get_proximity_contact"

\* C15: a contact returned by get_proximity_contact, computed or cached, has
\* a distance no greater than the range of that call; when the call's key is
\* in the cache with a distance greater than the requested range, the call
\* returns None.
C15_NoContactBeyondRange ==
    [][ProximityCall =>
         /\ (query'.contact.found => query'.contact.distance <= query'.range)
         /\ (HasKey(store, query'.key)
             /\ Lookup(store, query'.key).val.dist > query'.range
             => ~query'.contact.found)]_vars

\* A cache hit on an entry farther than the requested range (stored by a query
\* whose longer range rounds to the same key) was answered with None.
C15_Witness ==
    /\ query.op = "get_proximity_contact"
    /\ query.hit
    /\ ~query.contact.found
    /\ Lookup(store, query.key).val.dist # Inf
    /\ Lookup(store, query.key).val.dist > query.range

\* ------------------------------------------------------------------- C16
\* C16: a get_proximity_contact call that misses the cache and finds no
\* terrain point within range returns None and leaves the store as it was,
\* keys, values and order; its key is still absent, so the next query of that
\* key searches again.
C16_FailedSearchNotCached ==
    [][ProximityCall /\ ~query'.hit /\ ~query'.contact.found =>
         /\ store' = store
         /\ ~HasKey(store', query'.key)]_vars

\* A failed search was made while the cache held entries.
C16_Witness ==
    /\ query.op = "get_proximity_contact"
    /\ ~query.hit
    /\ ~query.contact.found
    /\ Len(store) > 0
    /\ ~HasKey(store, query.key)

\* ------------------------------------------------------------------- C17
\* C17: the cache never holds more than capacity entries; a hit makes its
\* entry the most recently used and keeps the order of the others; an
\* insertion makes the new entry the most recently used, and when the cache
\* was full the entry it evicts is the least recently used one.
C17_LruWithinCapacity ==
    [][ProximityCall =>
         /\ Len(store') <= Capacity
         /\ (query'.hit =>
               /\ Len(store') = Len(store)
               /\ store'[Len(store')] = Lookup(store, query'.key)
               /\ PopKey(store', query'.key) = PopKey(store, query'.key))
         /\ (~query'.hit /\ query'.contact.found =>
               /\ store'[Len(store')].key = query'.key
               /\ IF Len(store) = Capacity
                  THEN SubSeq(store', 1, Len(store') - 1) = Tail(store)
                  ELSE SubSeq(store', 1, Len(store') - 1) = store)]_vars

\* A query missed a full cache, found a point and evicted an entry to store it.
C17_Witness ==
    /\ query.op = "get_proximity_contact"
    /\ ~query.hit
    /\ query.contact.found
    /\ query.evicted > 0
    /\ Len(store) = Capacity

\* ========================================================= sensor: radar
\* get_radar_contacts parameters: the ranges, and where the query is made from.
InnerRange == 30
OuterRange == 50
RadarOrigins == {<<0, 0>>, <<10, 0>>, <<-10, 0>>}

\* Where the two sites can be: at the outer range in several directions, at
\* the inner range, and beyond the outer range inside and outside the span.
RadarPlaces ==
    {<<30, 40>>, <<-30, 40>>, <<40, 30>>, <<0, 30>>, <<60, 0>>, <<0, 100>>,
     <<100, 0>>}

\* LandingSiteSurfaceModel.get_sites(Range1D.from_center(cx, half_span)) as
\* the list it returns: the views in span, sorted by |x - cx|, the stable sort
\* keeping _sites order among equals.
SitesList(cx, half_span) ==
    LET c == GetSites(cx, half_span)
        Before(t, s) ==
            \/ Abs(views[t].x - cx) < Abs(views[s].x - cx)
            \/ /\ Abs(views[t].x - cx) = Abs(views[s].x - cx)
               /\ SiteIndex(t) < SiteIndex(s)
    IN [r \in 1..Cardinality(c) |->
          CHOOSE s \in c : Cardinality({t \in c : Before(t, s)}) = r - 1]

\* The radar's range test with the boundary excluded.
InRangeStrict(dist_sq, range) == dist_sq < range * range

\* dist <= range, for dist = hypot(dx, dy) given as its square.
InRange(dist_sq, range) == dist_sq <= range * range

\* The RadarContact built for candidate t seen from (x, y); the distance is
\* kept as its square.
RadarContact(t, x, y) ==
    LET dx == views[t].x - x
        dy == views[t].y - y
    IN [uid |-> t, x |-> views[t].x, y |-> views[t].y, size |-> views[t].size,
        rel_x |-> dx, rel_y |-> dy, distance_sq |-> dx * dx + dy * dy,
        is_inner_lock |-> InRange(dx * dx + dy * dy, InnerRange)]

\* contacts.sort(key=distance): a stable sort, equal distances keep the
\* order they were appended in.
SortByDistance(cs) ==
    LET Before(i, j) ==
            \/ cs[i].distance_sq < cs[j].distance_sq
            \/ cs[i].distance_sq = cs[j].distance_sq /\ i < j
    IN [r \in 1..Len(cs) |->
          cs[CHOOSE j \in 1..Len(cs) :
                Cardinality({i \in 1..Len(cs) : Before(i, j)}) = r - 1]]

\* sensor.get_radar_contacts(pos, sites, inner_range, outer_range).
RadarContacts(tgts, x, y) ==
    LET all == [i \in 1..Len(tgts) |-> RadarContact(tgts[i], x, y)]
    IN SortByDistance(SelectSeq(all, LAMBDA c : InRange(c.distance_sq, OuterRange)))

\* A radar query from one of the origins over the projected site views.
GetRadarContacts ==
    /\ \E o \in RadarOrigins :
        LET tgts == SitesList(o[1], OuterRange)
        IN query' = [op |-> "get_radar_contacts", x |-> o[1], y |-> o[2],
                     tgts |-> tgts, contacts |-> RadarContacts(tgts, o[1], o[2])]
    /\ UNCHANGED <<actors, ecsActorVars, siteVars, engineVars, ret, ncalls,
                   store, pc, ci, user_ok, resolved>>

\* The level's sites placed anywhere in RadarPlaces.
InitRadar == \E places \in [Sites -> RadarPlaces] : InitAt(<<"player">>, places)

NextRadar == GetRadarContacts

SpecRadar == InitRadar /\ [][NextRadar]_vars

\* ------------------------------------------------------------------- C18
\* Squared distance from the query's origin to site t.
RadarDistSq(t) ==
    (views[t].x - query.x) * (views[t].x - query.x)
    + (views[t].y - query.y) * (views[t].y - query.y)

\* Where uid t stands in the candidate list of the query.
CandidateIndex(t) == CHOOSE i \in 1..Len(query.tgts) : query.tgts[i] = t

\* C18: get_radar_contacts returns exactly one contact for every candidate
\* site within outer_range (boundary included) and none for a farther one;
\* every contact carries its site's x, y and size and has is_inner_lock set
\* exactly when its distance is within inner_range; the list ascends in
\* distance and contacts at equal distance stand in candidate order.
C18_RadarContactsExactAndOrdered ==
    query.op = "get_radar_contacts" =>
        LET cs == query.contacts
            cand == {query.tgts[i] : i \in 1..Len(query.tgts)}
        IN /\ \A t \in cand :
                Cardinality({i \in 1..Len(cs) : cs[i].uid = t})
                  = IF RadarDistSq(t) <= OuterRange * OuterRange THEN 1 ELSE 0
           /\ \A i \in 1..Len(cs) :
                /\ cs[i].uid \in cand
                /\ cs[i].x = views[cs[i].uid].x
                /\ cs[i].y = views[cs[i].uid].y
                /\ cs[i].size = views[cs[i].uid].size
                /\ cs[i].distance_sq = RadarDistSq(cs[i].uid)
                /\ cs[i].is_inner_lock
                     = (RadarDistSq(cs[i].uid) <= InnerRange * InnerRange)
           /\ \A i, j \in 1..Len(cs) :
                i < j =>
                  \/ cs[i].distance_sq < cs[j].distance_sq
                  \/ /\ cs[i].distance_sq = cs[j].distance_sq
                     /\ CandidateIndex(cs[i].uid) < CandidateIndex(cs[j].uid)

\* Two contacts exactly at the outer range, the first of them from the site
\* that is later in _sites but earlier in the candidate list.
C18_Witness ==
    /\ query.op = "get_radar_contacts"
    /\ Len(query.contacts) = 2
    /\ query.contacts[1].distance_sq = OuterRange * OuterRange
    /\ query.contacts[2].distance_sq = OuterRange * OuterRange
    /\ query.contacts[1].uid = "ferry"
    /\ ~query.contacts[1].is_inner_lock

\* ======================================================= terrain modifier
\* LandingSiteTerrainModifier.__call__: the lookup margin at lod 0.
SearchMargin == 80

\* The coarsest level of detail queried.
MaxLod == 1

\* 2**lod.
RECURSIVE Pow2(_)
Pow2(n) == IF n = 0 THEN 1 ELSE 2 * Pow2(n - 1)

\* The terrain-bound sites the modifier is queried with: one site at x = 0,
\* its blend margin none, the default, and wider than the lookup margin.
ModifierSites ==
    {[x |-> 0, y |-> 10, size |-> 20, terrain_bound |-> TRUE,
      terrain_mode |-> m, blend_margin |-> b, cut_depth |-> c] :
        m \in {"flush_flatten", "cut_in"}, b \in {0, 20, 100}, c \in {0, 30}}

\* Query positions, from the site's centre to beyond every band, and the
\* base heights the wrapped sampler gives there.
ModifierXs == {0, 10, 11, 20, 30, 31, 50, 51, 90, 91, 100, 110, 111, 170, 210, 211}
BaseHeights == {0, 50}

\* A height as an exact fraction.
Frac(num, den) == [num |-> num, den |-> den]

\* LandingSiteTerrainModifier._apply_site_mode(current_y, world_x, site, lod).
ApplySiteMode(current_y, world_x, site, lod) ==
    LET dx2 == 2 * Abs(world_x - site.x)
        blend == Max(0, site.blend_margin * Pow2(lod))
        target_y == IF site.terrain_mode = "cut_in"
                    THEN Min(site.y, current_y - Max(0, site.cut_depth))
                    ELSE site.y
    IN IF dx2 > site.size + 2 * blend THEN Frac(current_y, 1)
       ELSE IF dx2 <= site.size \/ blend = 0 THEN Frac(target_y, 1)
       ELSE Frac(target_y * (2 * blend - (dx2 - site.size))
                   + current_y * (dx2 - site.size),
                 2 * blend)

\* LandingSiteTerrainModifier.__call__(pos, y, lod) over a surface model that
\* holds the one site: the site is looked up within 80 * 2**lod of pos.x.
ModifiedHeight(site, x, y, lod) ==
    IF ~InSpan(site, x, SearchMargin * Pow2(lod)) THEN Frac(y, 1)
    ELSE IF ~site.terrain_bound THEN Frac(y, 1)
    ELSE IF site.terrain_mode = "elevated_supports" THEN Frac(y, 1)
    ELSE ApplySiteMode(y, x, site, lod)

\* One query of the modifier.
ModifyTerrain ==
    /\ \E site \in ModifierSites, x \in ModifierXs, y \in BaseHeights,
          lod \in 0..MaxLod :
        query' = [op |-> "terrain_modifier", site |-> site, x |-> x,
                  base |-> y, lod |-> lod,
                  out |-> ModifiedHeight(site, x, y, lod)]
    /\ UNCHANGED <<actors, ecsActorVars, siteVars, engineVars, ret, ncalls,
                   store, pc, ci, user_ok, resolved>>

NextTerrain == ModifyTerrain

SpecTerrain == Init /\ [][NextTerrain]_vars

\* ------------------------------------------------------------------- C19
\* The height the rule gives: the target inside the footprint, the linear
\* interpolation towards the base across the band of width
\* blend_margin * 2^lod, the base beyond.
BlendedHeight(site, x, base, lod) ==
    LET dx2 == 2 * Abs(x - site.x)
        margin == site.blend_margin * Pow2(lod)
        target == IF site.terrain_mode = "cut_in"
                  THEN Min(site.y, base - site.cut_depth)
                  ELSE site.y
    IN IF dx2 <= site.size THEN Frac(target, 1)
       ELSE IF dx2 <= site.size + 2 * margin
            THEN Frac(target * (2 * margin - (dx2 - site.size))
                        + base * (dx2 - site.size),
                      2 * margin)
       ELSE Frac(base, 1)

\* C19: for one terrain-bound flush_flatten or cut_in site the modified
\* height is the target within size/2 of the site, the interpolation
\* target*(1-t) + base*t with t = (|dx| - size/2) / margin up to
\* size/2 + margin, where margin = blend_margin * 2^lod, and the base height
\* beyond, for every blend_margin.
C19_BlendBandForEveryMargin ==
    query.op = "terrain_modifier" =>
        LET want == BlendedHeight(query.site, query.x, query.base, query.lod)
        IN query.out.num * want.den = want.num * query.out.den

\* ------------------------------------------------------------------- C20
\* C20: set_landing_site_colliders(L) succeeds and leaves the engine holding
\* exactly the colliders of L as its landing-site collider set, whatever it
\* held before (none for the empty list), apart from the terrain window.
C20_SiteCollidersReplaced ==
    ret.op = "set_landing_site_colliders" =>
        ~ret.err /\ LandingSiteShapes = ret.val

\* ------------------------------------------------------------------- C26
\* The registries agree: one shape list per body, the space holds exactly the
\* shapes of registered bodies, the shape-to-uid map names exactly those shapes
\* with their owners, and control, override, pending-force and contact entries
\* exist only for registered uids.
RegistriesAgree ==
    /\ DOMAIN shapes = DOMAIN bodies
    /\ space = UNION {shapes[u] : u \in DOMAIN shapes}
    /\ \A u, v \in DOMAIN shapes : u # v => shapes[u] \cap shapes[v] = {}
    /\ DOMAIN shape_to_uid = space
    /\ \A i \in DOMAIN shape_to_uid : i \in shapes[shape_to_uid[i]]
    /\ DOMAIN controls \subseteq DOMAIN bodies
    /\ DOMAIN overrides \subseteq DOMAIN bodies
    /\ DOMAIN pending_forces \subseteq DOMAIN bodies
    /\ DOMAIN contacts \subseteq DOMAIN bodies

\* The step is an attach under a uid that already had a body.
ReAttach ==
    /\ ret'.op = "attach_lander" \/ ret'.op = "attach_lander_from_polygons"
    /\ ret'.uid \in DOMAIN bodies

\* C26: after any attach, re-attach or removal the registries agree; a
\* re-attach leaves the uid with an empty contact report and without a queued
\* override or pending force; and re-attaching the primary actor leaves it the
\* primary actor.
C26_ReAttachReplacesCleanly ==
    [][/\ RegistriesAgree'
       /\ (ReAttach =>
             /\ contacts'[ret'.uid] = FALSE
             /\ ret'.uid \notin DOMAIN overrides'
             /\ ret'.uid \notin DOMAIN pending_forces'
             /\ (primary_uid = ret'.uid => primary_uid' = ret'.uid))]_vars

\* ============================================================ two actors
\* The game loop over a world with two lander actors, both attached to the
\* engine in World order.
InitTwo == InitWith(<<"player", "bot">>)

\* The loop up to the end of the ferry's first script frame.
NextTwo ==
    \/ ProcessInput
    \/ PhysicsPre /\ script'.idx = 0
    \/ EngineStep
    \/ PhysicsSync
    \/ ContactResolve
    \/ FrameSystems

SpecTwo == InitTwo /\ [][NextTwo]_vars

\* ------------------------------------------------------------------- C22
\* C22: PhysicsSyncSystem.update leaves every actor entity with the position
\* and velocity of the engine body registered under its own uid, and leaves
\* the site entities' transforms as they were.
C22_SyncPerActorUid ==
    [][pc = "sync" =>
         /\ \A a \in ActorSet \cap DOMAIN bodies :
               /\ trans_pos'[a] = bodies[a].pos
               /\ phys_vel'[a] = bodies[a].vel
         /\ UNCHANGED <<site_pos, site_vel>>]_vars

\* ------------------------------------------------------------------- C27
\* C27: the contact resolution of one actor decides on the contact report of
\* that actor's own uid, and whatever it does, landing or crash, leaves the
\* state, position, velocity and physics body of every other actor as they
\* were.
C27_ContactResolutionPerActor ==
    [][pc = "contact" =>
         /\ (actors[ci] \in DOMAIN contacts
              => resolved'.colliding = contacts[actors[ci]])
         /\ \A b \in ActorSet \ {actors[ci]} :
               /\ ls_state'[b] = ls_state[b]
               /\ trans_pos'[b] = trans_pos[b]
               /\ phys_vel'[b] = phys_vel[b]
               /\ (b \in DOMAIN bodies => bodies'[b] = bodies[b])]_vars

\* ------------------------------------------------- systems called directly
\* One entity with LanderState, Engine, FuelTank, Wallet and Transform built
\* from drawn component values, and each system's update called on the world
\* with dt = 1/Fps.  ret records the call; ret.val is the entity's
\* ControlIntent.refuel_requested for RefuelSystem.update and ret.err is set
\* when the call raised.
RefuelRate == Fps
FuelPrice == 10
OnPadPos == <<PadPos[1], PadPos[2] + HalfH>>

InitSystems ==
    \E st \in {"flying", "landed", "crashed", "out_of_fuel"},
       tl \in {0, Fps - 1}, tt \in {0, Fps},
       fl \in {0, MaxFuel - 1, MaxFuel}, cr \in {0, 2 * FuelPrice} :
        InitComp(<<"player">>, LevelPlaces,
                 [state |-> st,
                  pos |-> IF st = "flying" THEN StartPos ELSE OnPadPos,
                  thrust_level |-> tl, target_thrust |-> tt,
                  fuel |-> fl, credits |-> cr, mass |-> LanderMass])

SystemFrame ==
    /\ ~ret.err
    /\ UNCHANGED <<actors, siteVars, engineVars, ncalls, queryVars, pc, ci,
                   user_ok, resolved>>

\* PropulsionSystem.update(dt).
PropulsionUpdate ==
    /\ SystemFrame
    /\ thrust_level' = [a \in Actors |->
                          IF a \in ActorSet THEN PropThrust(a) ELSE thrust_level[a]]
    /\ trans_rot' = [a \in Actors |->
                       IF a \in ActorSet THEN PropRotation(a) ELSE trans_rot[a]]
    /\ fuel' = [a \in Actors |->
                  IF a \in ActorSet THEN PropFuel(a, thrust_level'[a]) ELSE fuel[a]]
    /\ ret' = Call("PropulsionSystem.update", None)
    /\ UNCHANGED <<ls_state, trans_pos, phys_vel, target_thrust, target_angle,
                   credits>>

\* StateTransitionSystem.update(dt).
StateTransitionUpdate ==
    /\ SystemFrame
    /\ ls_state' = [a \in Actors |->
                      IF a \in ActorSet
                      THEN StateAfter(ls_state[a], target_thrust[a], fuel[a])
                      ELSE ls_state[a]]
    /\ trans_pos' = [a \in Actors |->
                       IF a \in ActorSet /\ ls_state[a] = "landed"
                          /\ target_thrust[a] > 0
                       THEN TakeoffPos(trans_pos[a])
                       ELSE trans_pos[a]]
    /\ ret' = Call("StateTransitionSystem.update", None)
    /\ UNCHANGED <<trans_rot, phys_vel, thrust_level, target_thrust,
                   target_angle, fuel, credits>>

\* RefuelSystem.update(dt) with the entity's refuel_requested drawn: the
\* entity that passes the three early returns reaches
\* self.targets.get_targets, which a collaborator exposing get_sites does not
\* define, and the call raises.
RefuelUpdate ==
    /\ SystemFrame
    /\ \E refuel \in BOOLEAN :
        ret' = [op |-> "RefuelSystem.update", uid |-> None, val |-> refuel,
                err |-> \E a \in ActorSet :
                           RefuelRaises(a, Controls(FALSE, 0, FALSE, 0, refuel))]
    /\ UNCHANGED ecsActorVars

NextSystems ==
    \/ PropulsionUpdate
    \/ StateTransitionUpdate
    \/ RefuelUpdate

SpecSystems == InitSystems /\ [][NextSystems]_vars

\* C23: PropulsionSystem.update leaves a crashed entity with thrust_level 0
\* and target_thrust 0 and burns none of its fuel.
C23_CrashedPropulsionZeroed ==
    [][ret'.op = "PropulsionSystem.update" =>
        \A a \in ActorSet :
            ls_state[a] = "crashed" =>
                /\ thrust_level'[a] = 0
                /\ target_thrust'[a] = 0
                /\ fuel'[a] = fuel[a]]_vars

\* C24: StateTransitionSystem.update turns a landed entity whose
\* target_thrust is positive into a flying one and raises its y by exactly
\* 1.0; a landed entity whose target_thrust is not positive stays landed
\* where it is.
C24_TakeoffBumpsOneUnit ==
    [][ret'.op = "StateTransitionSystem.update" =>
        \A a \in ActorSet :
            ls_state[a] = "landed" =>
                IF target_thrust[a] > 0
                THEN /\ ls_state'[a] = "flying"
                     /\ trans_pos'[a] = <<trans_pos[a][1], trans_pos[a][2] + 1>>
                ELSE /\ ls_state'[a] = "landed"
                     /\ trans_pos'[a] = trans_pos[a]]_vars

\* A takeoff has happened: the entity that was built landed on the pad flies
\* one unit above it after StateTransitionSystem.update.
C24_Witness ==
    /\ ret.op = "StateTransitionSystem.update"
    /\ ls_state["player"] = "flying"
    /\ trans_pos["player"] = <<OnPadPos[1], OnPadPos[2] + 1>>

\* The fuel RefuelSystem adds in one update, in fuel units: the least of the
\* fuel missing, refuel_rate * dt and what the credits buy at the price
\* (credits are in whole multiples of the price here).
FuelToAdd(a) ==
    Min(Min(MaxFuel - fuel[a], RefuelRate),
        (Max(0, credits[a]) * Fps * Fps) \div FuelPrice)

\* C25: RefuelSystem.update, given a collaborator that exposes get_sites,
\* completes; a landed entity that requests refuel on a site and lacks fuel
\* gains FuelToAdd and pays for it; no other entity's fuel or credits change;
\* fuel never exceeds max_fuel and credits never fall below zero.
C25_RefuelAddsAndCharges ==
    [][ret'.op = "RefuelSystem.update" =>
        /\ ~ret'.err
        /\ \A a \in ActorSet :
            /\ IF ls_state[a] = "landed" /\ ret'.val /\ fuel[a] < MaxFuel
               THEN /\ fuel'[a] = fuel[a] + FuelToAdd(a)
                    /\ credits'[a] * Fps * Fps =
                         credits[a] * Fps * Fps - FuelToAdd(a) * FuelPrice
               ELSE fuel'[a] = fuel[a] /\ credits'[a] = credits[a]
            /\ fuel'[a] <= MaxFuel
            /\ credits'[a] >= 0]_vars

\* ---------------------------------------------------------------- raycast
\* The static shape of a terrain segment in the space: it has no entry in
\* shape_to_uid.
TerrainShape == 0

\* Distances from the ray's origin at which it can cross a shape, all within
\* max_distance.
RayDists == {1, 2, 3}

\* space.segment_query(p1, p2, 0.0, ShapeFilter()): one info per crossed
\* shape, in the order the space's spatial indexes visit them, which is not
\* the order along the ray.
InfoOrders(crossed) ==
    {f \in [1..Cardinality(crossed) -> crossed] :
        \A i, j \in 1..Cardinality(crossed) : i # j => f[i] # f[j]}

\* _shape_to_uid.get(id(shape)).
OwnerUid(shape) ==
    IF shape \in DOMAIN shape_to_uid THEN shape_to_uid[shape] ELSE None

\* PhysicsEngine.raycast(origin, angle, max_distance, uid) along a ray that
\* crosses the shapes of at, each at the distance at gives it.
Raycast ==
    /\ \E uid \in UidArgs, crossed \in SUBSET (space \cup {TerrainShape}) :
       \E at \in [crossed -> RayDists], infos \in InfoOrders(crossed) :
        LET ignored_uid == ResolveUid(uid)
            passed == {i \in DOMAIN infos :
                         ~(ignored_uid # None /\ OwnerUid(infos[i]) = ignored_uid)}
            first == CHOOSE i \in passed : \A j \in passed : i <= j
        IN query' = [op |-> "raycast", uid |-> uid, ignored |-> ignored_uid,
                     at |-> at, hit |-> passed # {},
                     shape |-> IF passed = {} THEN TerrainShape ELSE infos[first],
                     distance |-> IF passed = {} THEN 0 ELSE at[infos[first]]]
    /\ UNCHANGED <<actors, ecsActorVars, siteVars, engineVars, ret, ncalls,
                   store, pc, ci, user_ok, resolved>>

NextRaycast == Raycast

SpecRaycast == InitTwo /\ [][NextRaycast]_vars

\* The crossed shapes of the last raycast that its ignore uid does not own.
NotIgnored ==
    {sh \in DOMAIN query.at :
        ~(query.ignored # None /\ OwnerUid(sh) = query.ignored)}

\* C21: a raycast never reports a hit on a shape of the ignored uid; the hit
\* it reports is the crossed non-ignored shape nearest to the origin; it
\* reports no hit only when no non-ignored shape is crossed.
C21_RaycastFirstNonIgnoredHit ==
    query.op = "raycast" =>
        /\ query.hit <=> NotIgnored # {}
        /\ query.hit =>
              /\ query.shape \in NotIgnored
              /\ \A sh \in NotIgnored : query.distance <= query.at[sh]

\* ------------------------------------------------- collision callbacks
\* space.step delivers the callbacks registered by space.on_collision in
\* three phases: begin for the pairs found touching for the first time while
\* it collides the shapes, separate for the arbiters of earlier steps that
\* the collision phase did not touch, and post_solve, after the solver, for
\* every arbiter still touching.  arbiters.state gives each arbiter "first"
\* (begun in this step), "normal" (touching since an earlier step), "solved"
\* (post_solve delivered in this step) or "cached" (separated in this step;
\* the space keeps it a few steps, here until the step returns: a cached
\* arbiter and a freed one both get begin when the pair touches again).
ArbiterPairs == space \X Segments

\* PhysicsEngine._uid_from_arbiter: the owner of the pair's actor shape.
UidFromArbiter(pair) == OwnerUid(pair[1])

\* The report's colliding after a callback that writes v for uid.
Reported(uid, v) == IF uid = None THEN contacts ELSE Put(contacts, uid, v)

\* Mutant of PostSolved: post_solve leaves the report as it finds it.
PostSolvedUnwritten(uid) == contacts

\* _on_contact_post_solve: self._contacts[uid] = {"colliding": True, ...}.
PostSolved(uid) == Reported(uid, TRUE)

CallbackFrame ==
    UNCHANGED <<actors, ecsActorVars, siteVars, bodies, controls, overrides,
                pending_forces, primary_uid, window_center_x, masses, shapes,
                shape_to_uid, space, ret, ncalls, queryVars, pc, ci, user_ok,
                resolved>>

\* PhysicsEngine._on_contact_begin(arbiter), in the collision phase.
OnContactBegin ==
    /\ CallbackFrame
    /\ arbiters.phase = "collide"
    /\ \E pair \in ArbiterPairs :
        /\ pair \in DOMAIN arbiters.state => arbiters.state[pair] = "cached"
        /\ arbiters' = [arbiters EXCEPT !.state = Put(@, pair, "first")]
        /\ contacts' = Reported(UidFromArbiter(pair), TRUE)

\* PhysicsEngine._on_contact_separate(arbiter), for an arbiter of an earlier
\* step that this step's collision phase did not touch.
OnContactSeparate ==
    /\ CallbackFrame
    /\ arbiters.phase \in {"collide", "filter"}
    /\ \E pair \in DOMAIN arbiters.state :
        /\ arbiters.state[pair] = "normal"
        /\ arbiters' = [phase |-> "filter",
                        state |-> Put(arbiters.state, pair, "cached")]
        /\ contacts' = Reported(UidFromArbiter(pair), FALSE)

\* PhysicsEngine._on_contact_post_solve(arbiter), after the solver.
OnContactPostSolve ==
    /\ CallbackFrame
    /\ \E pair \in DOMAIN arbiters.state :
        /\ arbiters.state[pair] \in {"first", "normal"}
        /\ arbiters' = [phase |-> "solve",
                        state |-> Put(arbiters.state, pair, "solved")]
        /\ contacts' = PostSolved(UidFromArbiter(pair))

\* space.step returns once every arbiter still touching had its post_solve;
\* the next step starts with them "normal".
StepReturns ==
    /\ CallbackFrame
    /\ arbiters.phase # "collide" \/ arbiters.state = EmptyDict
    /\ \A pair \in DOMAIN arbiters.state :
          arbiters.state[pair] \in {"solved", "cached"}
    /\ arbiters' =
          [phase |-> "collide",
           state |-> [pair \in {q \in DOMAIN arbiters.state :
                                  arbiters.state[q] = "solved"} |-> "normal"]]
    /\ UNCHANGED contacts

NextCallbacks ==
    \/ OnContactBegin
    \/ OnContactSeparate
    \/ OnContactPostSolve
    \/ StepReturns

SpecCallbacks == InitTwo /\ [][NextCallbacks]_vars

\* The pairs of uid's shapes that are in contact according to arbs.
Touching(uid, arbs) ==
    {pair \in DOMAIN arbs.state :
        UidFromArbiter(pair) = uid /\ arbs.state[pair] # "cached"}

\* A separate callback of one of uid's pairs is delivered while another pair
\* of uid is touching.
SeparateAmongTouching(uid) ==
    /\ Touching(uid, arbiters') # {}
    /\ Touching(uid, arbiters') # Touching(uid, arbiters)
    /\ Touching(uid, arbiters') \subseteq Touching(uid, arbiters)

\* C28 as stated: at the end of a step the report of an actor with a pair
\* still in contact is colliding, and a separate callback of one pair never
\* clears the report while another pair of the same actor is touching.
C28_SeparateNeverClearsWhileTouching ==
    [][\A uid \in DOMAIN contacts :
        /\ (arbiters'.phase = "collide" /\ arbiters.phase # "collide"
              /\ Touching(uid, arbiters') # {}) => contacts'[uid]
        /\ (SeparateAmongTouching(uid) /\ contacts[uid]) => contacts'[uid]]_vars

\* C28 amended: once the callbacks of a step are delivered for an actor
\* (every pair of it still in contact had its post_solve, or the step has
\* returned), its report is colliding whenever one of its pairs is still in
\* contact, because the post_solve callbacks of a step follow its separate
\* callbacks; a separate callback does clear the report until then.
C28_CollidingAtEndOfStep ==
    \A uid \in DOMAIN contacts :
        (/\ Touching(uid, arbiters) # {}
         /\ \A pair \in Touching(uid, arbiters) :
               \/ arbiters.state[pair] = "solved"
               \/ arbiters.phase = "collide")
        => contacts[uid]

\* The separate callback of one of the player's pairs was delivered in this
\* step, and so was the post_solve of its other pair, which still touches.
C28_Witness ==
    /\ arbiters.phase = "solve"
    /\ \E gone, here \in ArbiterPairs :
        /\ UidFromArbiter(gone) = "player" /\ UidFromArbiter(here) = "player"
        /\ gone \in DOMAIN arbiters.state /\ arbiters.state[gone] = "cached"
        /\ here \in DOMAIN arbiters.state /\ arbiters.state[here] = "solved"
    /\ contacts["player"]

\* ---------------------------------------------------------------- takeoff
\* The game loop for one lander that starts landed on the pad with fuel for
\* TakeoffFuel / Fps ticks of full thrust while the user holds the thrust key: every frame routes a thrust
\* request and nothing else.  space.step is the integration of an upright
\* body over the pad: gravity and the queued force change the vertical
\* velocity, the velocity changes the height, and the pad's surface stops the
\* fall.  Rounding is away from zero, so a velocity or a displacement has
\* the sign of the exact one.
Gravity10 == 98
MaxAlt == 8
MaxClimb == 20
HeavyMass == 3 * LanderMass
TakeoffFuel == 5 * MaxFuel

RoundOut(n, d) ==
    IF n >= 0 THEN (n + d - 1) \div d ELSE 0 - ((0 - n + d - 1) \div d)

\* body.apply_force_at_world_point((fx, fy), body.position) and
\* space.step(dt) for the upright body of a: fy is the pending force (in
\* force units 1/Fps), the weight is mass * 9.8.
Integrated(a) ==
    LET fy == IF a \in DOMAIN pending_forces THEN pending_forces[a].mag ELSE 0
        m == masses[a]
        dv == RoundOut(10 * fy - Gravity10 * m * Fps, 10 * m * Fps * Fps)
        vy == Min(MaxClimb, bodies[a].vel[2] + dv)
        y == bodies[a].pos[2] + RoundOut(vy, Fps)
        rest == views["pad"].y + HalfH
    IN IF y < rest
       THEN [pos |-> <<bodies[a].pos[1], rest>>, vel |-> Zero2]
       ELSE [pos |-> <<bodies[a].pos[1], Min(y, rest + MaxAlt)>>,
             vel |-> <<bodies[a].vel[1], vy>>]

\* engine_adapter.step(dt) with the integration above.
IntegrationStep ==
    /\ pc = "step"
    /\ UNCHANGED extVars
    /\ StepBodies([a \in DOMAIN bodies |-> {Integrated(a)}])
    /\ pc' = "sync"
    /\ UNCHANGED <<actors, ecsActorVars, siteVars, controls, primary_uid, ci,
                   user_ok, resolved>>

InitTakeoff ==
    \E m \in {LanderMass, HeavyMass} :
        InitComp(<<"player">>, LevelPlaces,
                 [state |-> "landed", pos |-> OnPadPos, thrust_level |-> 0,
                  target_thrust |-> 0, fuel |-> TakeoffFuel, credits |-> 0,
                  mass |-> m])

\* The frame systems of a frame whose controls request thrust.
ThrustFrame ==
    /\ FrameSystems
    /\ user_ok => target_thrust'[primary_uid] > 0
    /\ target_angle' = target_angle

NextTakeoff ==
    \/ ProcessInput /\ UNCHANGED <<ecsActorVars, bodies>>
    \/ PhysicsPre
    \/ IntegrationStep
    \/ PhysicsSync
    \/ ContactResolve
    \/ ThrustFrame

\* Every frame runs the physics ticks its timers owe and then its frame
\* systems, so neither is postponed forever.
SpecTakeoff ==
    /\ InitTakeoff
    /\ [][NextTakeoff]_vars
    /\ WF_vars(NextTakeoff)
    /\ SF_vars(PhysicsPre)
    /\ SF_vars(ThrustFrame)

\* The lander flies with its bottom outside the pad's landing band.
ClearOfPad(a) ==
    /\ ls_state[a] = "flying"
    /\ ~InLandingBand(trans_pos[a][2] - HalfH, views["pad"].y, phys_vel[a][2])

\* The lander is landed with fuel and its maximum thrust exceeds its weight.
ReadyForTakeoff(a) ==
    /\ ls_state[a] = "landed"
    /\ fuel[a] > 0
    /\ masses[a] * Gravity10 < 10 * MaxPower

\* C29: a landed lander with fuel, whose maximum thrust exceeds its weight
\* and whose controls request thrust on every frame, eventually flies clear
\* of the pad's landing band: the contact resolution after the takeoff does
\* not put it back on the pad with thrust_level 0 tick after tick.
C29_TakeoffLeavesLandingBand ==
    ReadyForTakeoff("player") ~> ClearOfPad("player")

\* ------------------------------------------------------------------- C30
\* The actor is airborne: it is neither landed nor crashed.
Airborne(a) == ls_state[a] \in {"flying", "out_of_fuel"}

\* C30: a contact-resolution step resolves to landed or crashed every
\* airborne actor, out of fuel or not, whose body the engine reports as
\* colliding while it descends, so that none rests on the terrain in a
\* non-terminal state.
C30_CollidingAirborneResolved ==
    [][pc = "contact" =>
        LET a == actors[ci] IN
        (/\ Airborne(a)
         /\ a \in DOMAIN contacts /\ contacts[a]
         /\ phys_vel[a][2] < 0)
        => ls_state'[a] \in {"landed", "crashed"}]_vars

====
